---- MODULE Spec2Model ----
(***************************************************************************)
(* Model of the two scan drivers scan_mll_bins.py ("mll") and              *)
(* scan_mll_bins_cxx.py ("cxx").                                           *)
(*                                                                         *)
(* Card files are modelled as Python strings: sequences of one-character   *)
(* strings.  The regular expressions of update_run_card and                *)
(* update_param_card are evaluated character by character, the way         *)
(* re.subn evaluates them with re.MULTILINE.                               *)
(*                                                                         *)
(* Floats with at most one decimal are held as their number of tenths      *)
(* (15.0 is 150); CXX_VALUES are Python ints.                              *)
(***************************************************************************)
EXTENDS Integers, Sequences, FiniteSets, TLC

(***************************************************************************)
(* Program constants                                                       *)
(***************************************************************************)
\* A float is written as its number of tenths: 15.0 is 150.
MASS_BINS ==
  << <<150, 200>>, <<200, 250>>, <<250, 300>>, <<300, 350>>, <<350, 400>>, <<400, 450>>,
     <<450, 500>>, <<500, 550>>, <<550, 600>>, <<600, 640>>, <<640, 680>>, <<680, 720>>,
     <<720, 760>>, <<760, 810>>, <<810, 860>>, <<860, 910>>, <<910, 960>>, <<960, 1010>>,
     <<1010, 1060>>, <<1060, 1100>>, <<1100, 1150>>, <<1150, 1200>>, <<1200, 1260>>,
     <<1260, 1330>>, <<1330, 1410>>, <<1410, 1500>>, <<1500, 1600>>, <<1600, 1710>>,
     <<1710, 1850>>, <<1850, 2000>>, <<2000, 2200>>, <<2200, 2430>>, <<2430, 2730>>,
     <<2730, 3200>>, <<3200, 3800>>, <<3800, 4400>>, <<4400, 5100>>, <<5100, 6000>>,
     <<6000, 7000>>, <<7000, 8300>>, <<8300, 10000>>, <<10000, 15000>>,
     <<15000, 30000>> >>

CXX_VALUES == <<-100, -70, -35, -20, -10, -5, -1, 1, 5, 10, 20, 35, 70, 100>>

PARAM_MIN == <<"m", "m", "l", "l">>

PARAM_MAX == <<"m", "m", "l", "l", "m", "a", "x">>

\* sys.argv[1]: the label of the Wilson coefficient in the param card.
CXX_LABEL == <<"c", "x", "x">>

(***************************************************************************)
(* Characters and the character classes of the regular expressions         *)
(***************************************************************************)
DigitChars == {"0", "1", "2", "3", "4", "5", "6", "7", "8", "9"}

\* \s restricted to the white space of the modelled alphabet
SpaceChars == {" ", "\t", "\n"}

\* [\d.eE+-]
NumChars == DigitChars \cup {".", "e", "E", "+", "-"}

LetterChars == {"a", "b", "c", "d", "e", "l", "m", "o", "p", "x", "y", "E", "_"}

\* \w, as far as \b needs it
WordChars == DigitChars \cup LetterChars

\* The first index j >= i with text[j] outside S (Len(text)+1 when there is
\* none): where a greedy S* that starts at i stops.
RECURSIVE SpanEnd(_, _, _)
SpanEnd(text, i, S) ==
  IF i > Len(text) THEN i
  ELSE IF text[i] \notin S THEN i
  ELSE SpanEnd(text, i + 1, S)

\* ^ under re.MULTILINE: at the start of the text and after every newline
AtLineStart(text, i) == i = 1 \/ text[i - 1] = "\n"

\* the positions from pos on at which ^ matches before a character
LineStarts(text, pos) == {i \in pos..Len(text) : AtLineStart(text, i)}

CharAt(text, i, c) == i <= Len(text) /\ text[i] = c

LitAt(text, i, lit) ==
  /\ i + Len(lit) - 1 <= Len(text)
  /\ \A k \in 1..Len(lit) : text[i + k - 1] = lit[k]

\* \b after a name that ends in a word character
BoundaryAt(text, i) == i > Len(text) \/ text[i] \notin WordChars

Slice(text, a, b) == SubSeq(text, a, b - 1)

(***************************************************************************)
(* Number formatting                                                       *)
(***************************************************************************)
DigitOf(d) ==
  CASE d = 0 -> "0" [] d = 1 -> "1" [] d = 2 -> "2" [] d = 3 -> "3"
    [] d = 4 -> "4" [] d = 5 -> "5" [] d = 6 -> "6" [] d = 7 -> "7"
    [] d = 8 -> "8" [] d = 9 -> "9"

RECURSIVE NatStr(_)
NatStr(n) == IF n < 10 THEN <<DigitOf(n)>>
             ELSE NatStr(n \div 10) \o <<DigitOf(n % 10)>>

\* str(v) of a Python int
IntStr(v) == IF v < 0 THEN <<"-">> \o NatStr(-v) ELSE NatStr(v)

\* f"{x:.6g}" of a float 0 <= x < 10^5 held in tenths: at most six
\* significant digits, so no rounding and no exponent; a zero fraction and
\* the point are dropped
Fmt6g(x) ==
  NatStr(x \div 10) \o (IF x % 10 = 0 THEN <<>> ELSE <<".", DigitOf(x % 10)>>)

RECURSIVE Zeros(_)
Zeros(n) == IF n <= 0 THEN <<>> ELSE <<"0">> \o Zeros(n - 1)

\* f"{v:.6e}" of an int with at most seven digits (exactly representable)
Fmt6e(v) ==
  LET a    == IF v < 0 THEN -v ELSE v
      ds   == NatStr(a)
      ex   == Len(ds) - 1
      frac == Tail(ds) \o Zeros(6 - ex)
      exs  == IF ex < 10 THEN <<"0">> \o NatStr(ex) ELSE NatStr(ex)
  IN  (IF v < 0 THEN <<"-">> ELSE <<>>)
        \o <<Head(ds), ".">> \o frac \o <<"e", "+">> \o exs

(***************************************************************************)
(* update_run_card: the pattern  ^\s*[-+]?[\d.eE+-]+(\s*=\s*NAME\b)        *)
(***************************************************************************)
\* One match attempt at position i.  The classes \s, [\d.eE+-] and "=" are
\* pairwise disjoint, so the greedy runs are the only way to match.
\* gs is where group 1 starts (the end of the number), me the match end.
RunMatch(text, i, name) ==
  LET a == SpanEnd(text, i, SpaceChars)
      b == SpanEnd(text, a, NumChars)
      c == SpanEnd(text, b, SpaceChars)
      d == SpanEnd(text, c + 1, SpaceChars)
      e == d + Len(name)
  IN  [ok |-> /\ AtLineStart(text, i)
              /\ b > a
              /\ CharAt(text, c, "=")
              /\ LitAt(text, d, name)
              /\ BoundaryAt(text, e),
       ns |-> a, gs |-> b, me |-> e]

\* re.subn(pattern, f" {value:.6g}\\1", text, flags=re.MULTILINE) from
\* position pos on: [text, n]
RECURSIVE RunSubn(_, _, _, _)
RunSubn(text, pos, name, repl) ==
  LET starts == {i \in LineStarts(text, pos) : RunMatch(text, i, name).ok}
  IN  IF starts = {} THEN [text |-> Slice(text, pos, Len(text) + 1), n |-> 0]
      ELSE LET i    == CHOOSE s \in starts : \A t \in starts : s <= t
               m    == RunMatch(text, i, name)
               rest == RunSubn(text, m.me, name, repl)
           IN  [text |-> Slice(text, pos, i) \o <<" ">> \o repl
                           \o Slice(text, m.gs, m.me) \o rest.text,
                n |-> 1 + rest.n]

SubstRunCardSwapped(text, mmin, mmax) ==
  LET r1 == RunSubn(text, 1, PARAM_MIN, Fmt6g(mmax))
      r2 == RunSubn(r1.text, 1, PARAM_MAX, Fmt6g(mmin))
  IN  [text |-> r2.text, nmin |-> r1.n, nmax |-> r2.n]

\* lines 89-97: both substitutions, the second on the result of the first
SubstRunCard(text, mmin, mmax) ==
  LET r1 == RunSubn(text, 1, PARAM_MIN, Fmt6g(mmin))
      r2 == RunSubn(r1.text, 1, PARAM_MAX, Fmt6g(mmax))
  IN  [text |-> r2.text, nmin |-> r1.n, nmax |-> r2.n]

(***************************************************************************)
(* update_param_card: ^(\s*\d+\s+)[-+]?[\d.eE+-]+(\s+#\s*LABEL\b)          *)
(***************************************************************************)
ParamMatch(text, i, label) ==
  LET a == SpanEnd(text, i, SpaceChars)
      b == SpanEnd(text, a, DigitChars)
      c == SpanEnd(text, b, SpaceChars)
      d == SpanEnd(text, c, NumChars)
      e == SpanEnd(text, d, SpaceChars)
      f == SpanEnd(text, e + 1, SpaceChars)
      g == f + Len(label)
  IN  [ok |-> /\ AtLineStart(text, i)
              /\ b > a /\ c > b /\ d > c /\ e > d
              /\ CharAt(text, e, "#")
              /\ LitAt(text, f, label)
              /\ BoundaryAt(text, g),
       ns |-> c, gs |-> d, me |-> g]

RECURSIVE ParamSubn(_, _, _, _)
ParamSubn(text, pos, label, repl) ==
  LET starts == {i \in LineStarts(text, pos) : ParamMatch(text, i, label).ok}
  IN  IF starts = {} THEN [text |-> Slice(text, pos, Len(text) + 1), n |-> 0]
      ELSE LET i    == CHOOSE s \in starts : \A t \in starts : s <= t
               m    == ParamMatch(text, i, label)
               rest == ParamSubn(text, m.me, label, repl)
           IN  [text |-> Slice(text, pos, m.ns) \o repl
                           \o Slice(text, m.gs, m.me) \o rest.text,
                n |-> 1 + rest.n]

SubstParamCard(text, cxx) ==
  ParamSubn(text, 1, CXX_LABEL, Fmt6e(cxx))

(***************************************************************************)
(* parse_cross_section.  A log is a sequence of lines and a line a         *)
(* sequence of atoms: indivisible pieces of text, " " being one blank.     *)
(* Adjacent atoms with no " " between them form one whitespace-split word. *)
(***************************************************************************)
\* float(word) succeeds on these words alone; the value is in units of 1e-3
FloatAtoms == {"6.594e+02", "3.011e+00", "1.250e+01", "2.000e-01"}

FloatValue(atom) ==
  CASE atom = "6.594e+02" -> 659400
    [] atom = "3.011e+00" -> 3011
    [] atom = "1.250e+01" -> 12500
    [] atom = "2.000e-01" -> 200

IsFloat(word) == Len(word) = 1 /\ word[1] \in FloatAtoms

\* "Cross-section :" in line
HasMarker(line) ==
  \E k \in 1..(Len(line) - 2) :
    line[k] = "Cross-section" /\ line[k + 1] = " " /\ line[k + 2] = ":"

\* line.split()
RECURSIVE Split(_)
Split(line) ==
  IF line = <<>> THEN <<>>
  ELSE IF Head(line) = " " THEN Split(Tail(line))
  ELSE LET e == SpanEnd(line, 1, {a \in {line[k] : k \in 1..Len(line)} : a # " "})
       IN  <<Slice(line, 1, e)>> \o Split(Slice(line, e, Len(line) + 1))

File(text) == [exists |-> TRUE, text |-> text]

NoFile == [exists |-> FALSE, text |-> <<>>]

LastMarkerLine(lines) ==
  LET ms == {k \in 1..Len(lines) : HasMarker(lines[k])}
  IN  IF ms = {} THEN 0 ELSE CHOOSE k \in ms : \A m \in ms : m <= k

\* lines 137-139: the line at which the for loop first enters the if
\* (0: no line does)
FirstMarkerLine(lines) ==
  LET ms == {k \in 1..Len(lines) : HasMarker(lines[k])}
  IN  IF ms = {} THEN 0 ELSE CHOOSE k \in ms : \A m \in ms : k <= m

NoResult(status) ==
  [status |-> status, xsec |-> 0, err |-> 0, unit |-> <<>>]

\* parse_cross_section(log_path): the exception raised, or the tuple returned
ParseCrossSectionOf(file) ==
  IF ~file.exists THEN NoResult("FileNotFoundError")
  ELSE LET k == FirstMarkerLine(file.text)
       IN  IF k = 0 THEN NoResult("RuntimeError")
           ELSE LET parts == Split(file.text[k])
                IN  IF Len(parts) >= 6 /\ IsFloat(parts[3]) /\ IsFloat(parts[5])
                    THEN [status |-> "ok",
                          xsec   |-> FloatValue(parts[3][1]),
                          err    |-> FloatValue(parts[5][1]),
                          unit   |-> parts[6]]
                    ELSE NoResult("RuntimeError")

(***************************************************************************)
(* Run names                                                               *)
(***************************************************************************)
ReplaceChar(s, from, to) ==
  [k \in 1..Len(s) |-> IF s[k] = from THEN to ELSE s[k]]

CxxTagUnsigned(cxx) ==
  ReplaceChar(IntStr(IF cxx < 0 THEN -cxx ELSE cxx), ".", "p")

\* line 205: str(cxx).replace(".", "p").replace("-", "m")
CxxTag(cxx) == ReplaceChar(ReplaceChar(IntStr(cxx), ".", "p"), "-", "m")

\* int(x) of a float x >= 0 held in tenths: truncation
IntOf(x) == x \div 10

\* scan_mll_bins.py line 168, scan_mll_bins_cxx.py line 206
RunName(scr, mmin, mmax, cxx) ==
  <<"mll_">> \o IntStr(IntOf(mmin)) \o <<"_">> \o IntStr(IntOf(mmax))
    \o (IF scr = "cxx" THEN <<"_cxx_">> \o CxxTag(cxx) ELSE <<>>)

(***************************************************************************)
(* Bounds of the model                                                     *)
(***************************************************************************)
\* how many entries of MASS_BINS and of CXX_VALUES a scan of Spec visits
NBins == 2

NCxx == 2

\* the longest log SpecParse hands to parse_cross_section
MaxLogLines == 2

(***************************************************************************)
(* The files the scans start from, and what generate_events can print      *)
(***************************************************************************)
LineMin == <<" ", " ", "1", "5", ".", "0", " ", "=", " ", "m", "m", "l", "l",
             " ", "!", " ", "l", "o">>

LineMax == <<" ", "-", "1", ".", "0", " ", " ", "=", " ", "m", "m", "l", "l",
             "m", "a", "x">>

LineComment == <<"#", " ", "c", "\n">>

NL == <<"\n">>

RunTemplates ==
  { LineComment \o LineMin \o NL \o LineMax \o NL,
    LineComment \o NL \o LineMin \o NL \o <<"\t">> \o NL \o LineMax \o NL,
    LineComment \o LineMax \o NL,
    LineComment \o LineMin \o NL }

LineCxx == <<" ", " ", "7", " ", "1", ".", "0", "e", "-", "0", "1", " ", "#",
             " ", "c", "x", "x">>

LineCyy == <<" ", " ", "8", " ", "2", " ", "#", " ", "c", "y", "y">>

ParamTemplates ==
  { LineComment \o NL \o LineCxx \o NL \o LineCyy \o NL,
    LineComment \o LineCyy \o NL }

\* working cards left by an earlier use of the directory
OldRunCard == <<"#", " ", "o", "l", "d", "\n">> \o LineMin \o NL \o LineMax \o NL

OldParamCard == <<"#", " ", "o", "l", "d", "\n">> \o LineCxx \o NL

LineInfo == <<"INFO:", " ", "done">>

LineGoodA == <<" ", "Cross-section", " ", ":", " ", " ", " ", "6.594e+02",
               " ", " ", "+-", " ", " ", "3.011e+00", " ", "pb">>

LineGoodB == <<"Cross-section", " ", ":", " ", "1.250e+01", " ", "+-", " ",
               "2.000e-01", " ", "pb">>

LineStale == <<"Cross-section", " ", ":", " ", "3.011e+00", " ", "+-", " ",
               "2.000e-01", " ", "fb">>

LineShort == <<"Cross-section", " ", ":", " ", "6.594e+02">>

LineNonNum == <<"Cross-section", " ", ":", " ", "pb", " ", "+-", " ",
                "3.011e+00", " ", "pb">>

LinePrefixed == <<"INFO:", " ", "Cross-section", " ", ":", " ", "6.594e+02",
                  " ", "+-", " ", "3.011e+00", " ", "pb">>

LineSpaced == <<"Cross-section", " ", " ", ":", " ", "6.594e+02", " ", "+-",
                " ", "3.011e+00", " ", "pb">>

\* what one run of generate_events may write to its stdout/stderr
GenOutputs ==
  { <<LineInfo, LineGoodA, LineGoodB>>, <<LineGoodB, LineInfo>>,
    <<LineInfo>>, <<LineShort, LineGoodA>>, <<>> }

ExitStatuses == {0, 1}

StaleLog == <<LineInfo, LineStale>>

HeaderLine(scr) ==
  [kind |-> "header", scr |-> scr, mmin |-> 0, mmax |-> 0, cxx |-> 0,
   xsec |-> 0, err |-> 0, unit |-> <<>>]

\* lines 179 / 217-220: the row, as the values its columns are formatted from
\* (scan_mll_bins.py has no cxx column: cxx is 0 in its rows)
RowLine(scr, mmin, mmax, cxx, res) ==
  [kind |-> "row", scr |-> scr, mmin |-> mmin, mmax |-> mmax,
   cxx |-> IF scr = "cxx" THEN cxx ELSE 0,
   xsec |-> res.xsec, err |-> res.err, unit |-> res.unit]

OldTable ==
  << HeaderLine("old"),
     RowLine("old", 150, 200, 0,
             [status |-> "ok", xsec |-> 200, err |-> 200, unit |-> <<"fb">>]) >>

VARIABLES script, leftover, runTemplate, paramTemplate, runCard, paramCard,
          logs, out, i, j, pc, log_path, result, error, invoked

vars == <<script, leftover, runTemplate, paramTemplate, runCard, paramCard,
          logs, out, i, j, pc, log_path, result, error, invoked>>

(***************************************************************************)
(* The loops of main                                                       *)
(***************************************************************************)
\* the loop variables (mmin, mmax) and cxx at position (i, j)
MMin(bi) == MASS_BINS[bi][1]

MMax(bi) == MASS_BINS[bi][2]

Cxx(scr, ci) == IF scr = "cxx" THEN CXX_VALUES[ci] ELSE 0

LoopNextCxxOuter(scr, bi, ci, nb, nc) ==
  IF scr = "cxx" /\ bi < nb THEN <<bi + 1, ci>>
  ELSE IF scr = "cxx" /\ ci < nc THEN <<1, ci + 1>>
  ELSE <<nb + 1, 1>>

\* the position after (bi, ci): the inner for of scan_mll_bins_cxx.py runs
\* over CXX_VALUES, the outer (the only one of scan_mll_bins.py) over MASS_BINS
LoopNext(scr, bi, ci, nb, nc) ==
  IF scr = "cxx" /\ ci < nc THEN <<bi, ci + 1>> ELSE <<bi + 1, 1>>

CurrentName == RunName(script, MMin(i), MMax(i), Cxx(script, j))

ReadFile(fs, name) == IF name \in DOMAIN fs THEN fs[name] ELSE NoFile

WriteFile(fs, name, file) ==
  [n \in DOMAIN fs \cup {name} |-> IF n = name THEN file ELSE fs[n]]

NoFiles == [n \in {} |-> NoFile]

(***************************************************************************)
(* The file operations of the steps                                        *)
(***************************************************************************)
HeaderAppended(old, scr) == File(old.text \o <<HeaderLine(scr)>>)

\* lines 158-159: OUTPUT_FILE.open("w") truncates, then the header is written
WriteHeader(old, scr) == File(<<HeaderLine(scr)>>)

\* lines 178-179: OUTPUT_FILE.open("a")
AppendRow(old, row) == File(old.text \o <<row>>)

WorkingCardAsSource(template, working) == working

\* line 89 / 95 / 118: the text the substitution starts from
CardSource(template, working) == template

RunCardAlwaysWritten(old, r) == File(r.text)

\* lines 99-104: RUN_CARD.write_text(text) is reached only when both counts
\* are non-zero
RunCardAfter(old, r) ==
  IF r.nmin = 0 \/ r.nmax = 0 THEN old ELSE File(r.text)

\* scan_mll_bins_cxx.py lines 132-137
ParamCardAfter(old, r) == IF r.n = 0 THEN old ELSE File(r.text)

NeverRaises(status) == FALSE

\* subprocess.run(..., check=True) raises CalledProcessError
Raises(status) == status # 0

LogAppended(old, output) == File(old.text \o output)

\* lines 116-117: log_path.open("w") truncates the log, the child process
\* writes its stdout and stderr into it
LogAfterRun(old, output) == File(output)

(***************************************************************************)
(* Initial states                                                          *)
(***************************************************************************)
AllRunNames(scr, nb, nc) ==
  {RunName(scr, MMin(bi), MMax(bi), Cxx(scr, ci)) :
     bi \in 1..nb, ci \in 1..(IF scr = "cxx" THEN nc ELSE 1)}

\* the directory before main starts: empty of working files, or holding the
\* working cards, logs and table of an earlier scan
InitFiles(nb, nc) ==
  \/ /\ leftover = FALSE
     /\ runCard = NoFile
     /\ paramCard = NoFile
     /\ logs = NoFiles
     /\ out = NoFile
  \/ /\ leftover = TRUE
     /\ runCard = File(OldRunCard)
     /\ paramCard = IF script = "cxx" THEN File(OldParamCard) ELSE NoFile
     /\ logs = [n \in AllRunNames(script, nb, nc) |-> File(StaleLog)]
     /\ out = File(OldTable)

InitLocals ==
  /\ i = 1
  /\ j = 1
  /\ log_path = <<>>
  /\ result = NoResult("none")
  /\ error = "none"
  /\ invoked = <<>>

Init ==
  /\ script \in {"mll", "cxx"}
  /\ runTemplate \in {File(t) : t \in RunTemplates} \cup {NoFile}
  /\ paramTemplate \in IF script = "cxx"
                       THEN {File(t) : t \in ParamTemplates} \cup {NoFile}
                       ELSE {NoFile}
  /\ InitFiles(NBins, NCxx)
  /\ InitLocals
  /\ pc = "start"

(***************************************************************************)
(* main, one action per step                                               *)
(***************************************************************************)
Fail(exc) ==
  /\ pc' = "failed"
  /\ error' = exc

\* lines 157-159
Start ==
  /\ pc = "start"
  /\ out' = WriteHeader(out, script)
  /\ pc' = "card"
  /\ UNCHANGED <<script, leftover, runTemplate, paramTemplate, runCard,
                 paramCard, logs, i, j, log_path, result, error, invoked>>

\* update_run_card(mmin, mmax); read_text raises FileNotFoundError when the
\* template is missing
UpdateRunCard ==
  /\ pc = "card"
  /\ LET src == CardSource(runTemplate, runCard)
         r   == SubstRunCard(src.text, MMin(i), MMax(i))
     IN  \/ /\ ~src.exists
            /\ Fail("FileNotFoundError")
            /\ runCard' = runCard
         \/ /\ src.exists
            /\ (r.nmin = 0 \/ r.nmax = 0)
            /\ runCard' = RunCardAfter(runCard, r)
            /\ Fail("RuntimeError")
         \/ /\ src.exists
            /\ ~(r.nmin = 0 \/ r.nmax = 0)
            /\ runCard' = RunCardAfter(runCard, r)
            /\ pc' = IF script = "cxx" THEN "param" ELSE "run"
            /\ error' = error
  /\ UNCHANGED <<script, leftover, runTemplate, paramTemplate, paramCard,
                 logs, out, i, j, log_path, result, invoked>>

\* update_param_card(cxx)
UpdateParamCard ==
  /\ pc = "param"
  /\ LET src == CardSource(paramTemplate, paramCard)
         r   == SubstParamCard(src.text, Cxx(script, j))
     IN  \/ /\ ~src.exists
            /\ Fail("FileNotFoundError")
            /\ paramCard' = paramCard
         \/ /\ src.exists
            /\ r.n = 0
            /\ paramCard' = ParamCardAfter(paramCard, r)
            /\ Fail("RuntimeError")
         \/ /\ src.exists
            /\ r.n # 0
            /\ paramCard' = ParamCardAfter(paramCard, r)
            /\ pc' = "run"
            /\ error' = error
  /\ UNCHANGED <<script, leftover, runTemplate, paramTemplate, runCard,
                 logs, out, i, j, log_path, result, invoked>>

\* run_name = ...; log_path = run_madgraph(run_name), the generator printing
\* one of outs
RunMadgraphWith(outs) ==
  /\ pc = "run"
  /\ \E output \in outs, status \in ExitStatuses :
       /\ logs' = WriteFile(logs, CurrentName,
                            LogAfterRun(ReadFile(logs, CurrentName), output))
       /\ invoked' = Append(invoked,
            [mmin |-> MMin(i), mmax |-> MMax(i), cxx |-> Cxx(script, j),
             name |-> CurrentName, output |-> output, status |-> status])
       /\ \/ /\ Raises(status)
             /\ Fail("CalledProcessError")
             /\ log_path' = log_path
          \/ /\ ~Raises(status)
             /\ pc' = "parse"
             /\ log_path' = CurrentName
             /\ error' = error
  /\ UNCHANGED <<script, leftover, runTemplate, paramTemplate, runCard,
                 paramCard, out, i, j, result>>

RunMadgraph == RunMadgraphWith(GenOutputs)

\* xsec, err, unit = parse_cross_section(log_path)
ParseCrossSection ==
  /\ pc = "parse"
  /\ LET r == ParseCrossSectionOf(ReadFile(logs, log_path))
     IN  \/ /\ r.status = "ok"
            /\ result' = r
            /\ pc' = "append"
            /\ error' = error
         \/ /\ r.status # "ok"
            /\ Fail(r.status)
            /\ result' = result
  /\ UNCHANGED <<script, leftover, runTemplate, paramTemplate, runCard,
                 paramCard, logs, out, i, j, log_path, invoked>>

\* lines 178-179, and the loops' step to the next scan point, the scan
\* running over the first nb bins and the first nc cxx values
WriteRowOn(nb, nc) ==
  /\ pc = "append"
  /\ out' = AppendRow(out, RowLine(script, MMin(i), MMax(i), Cxx(script, j),
                                   result))
  /\ LET nx == LoopNext(script, i, j, nb, nc)
     IN  /\ i' = nx[1]
         /\ j' = nx[2]
         /\ pc' = IF nx[1] > nb THEN "done" ELSE "card"
  /\ UNCHANGED <<script, leftover, runTemplate, paramTemplate, runCard,
                 paramCard, logs, log_path, result, error, invoked>>

WriteRow == WriteRowOn(NBins, NCxx)

Next ==
  \/ Start
  \/ UpdateRunCard
  \/ UpdateParamCard
  \/ RunMadgraph
  \/ ParseCrossSection
  \/ WriteRow

Spec == Init /\ [][Next]_vars

(***************************************************************************)
(* Vocabulary of the claims                                                *)
(***************************************************************************)
IsCxx == script = "cxx"

\* the number of scan points of the scan
Total == IF IsCxx THEN NBins * NCxx ELSE NBins

\* the 1-based place of the loops' current position in the scan order
PointIndex == IF IsCxx THEN (i - 1) * NCxx + j ELSE i

\* the scan order the spec states: MASS_BINS in list order, and for the cxx
\* script MASS_BINS x CXX_VALUES with the mass bin outermost
ScanBin(k) == IF IsCxx THEN ((k - 1) \div NCxx) + 1 ELSE k

ScanCxx(k) == IF IsCxx THEN ((k - 1) % NCxx) + 1 ELSE 1

\* the iterations that ran to their end
Finished ==
  CASE pc = "start" -> 0
    [] pc = "done"  -> Total
    [] OTHER        -> PointIndex - 1

NumRows == Len(out.text) - 1

OutputOf(k) == ParseCrossSectionOf(File(invoked[k].output))

ExpectedRow(k) ==
  RowLine(script, MMin(ScanBin(k)), MMax(ScanBin(k)), Cxx(script, ScanCxx(k)),
          OutputOf(k))

\* the numeric fields of the lines of a run card that define `name`
RunCardNumbers(text, name) ==
  {Slice(text, RunMatch(text, s, name).ns, RunMatch(text, s, name).gs) :
     s \in {t \in LineStarts(text, 1) : RunMatch(text, t, name).ok}}

ParamCardNumbers(text, label) ==
  {Slice(text, ParamMatch(text, s, label).ns, ParamMatch(text, s, label).gs) :
     s \in {t \in LineStarts(text, 1) : ParamMatch(text, t, label).ok}}

(***************************************************************************)
(* C1                                                                      *)
(***************************************************************************)
\* C1: once main has written the header, the output table is the header
\* line followed by one row per finished iteration, in scan order, each row
\* built from its own scan point and its own run's output; nothing of the
\* table's earlier content is left.
C1_TableIsHeaderPlusRows ==
  pc # "start" =>
    /\ out.exists
    /\ Len(out.text) = 1 + Finished
    /\ out.text[1] = HeaderLine(script)
    /\ \A k \in 1..NumRows : out.text[k + 1] = ExpectedRow(k)
    /\ \A k \in 2..Len(out.text) : out.text[k].kind = "row"

\* a finished scan over a directory that held an older table
C1_Witness ==
  /\ leftover
  /\ pc = "done"
  /\ NumRows = Total
  /\ NumRows >= 2

(***************************************************************************)
(* C5                                                                      *)
(***************************************************************************)
\* C5: the generator is invoked for the scan points in scan order, each
\* once, none skipped; a finished scan made exactly Total invocations; an
\* invocation starts only when the rows of all earlier points are written.
C5_EveryPointOnceInOrder ==
  /\ \A k \in 1..Len(invoked) :
       /\ invoked[k].mmin = MMin(ScanBin(k))
       /\ invoked[k].mmax = MMax(ScanBin(k))
       /\ invoked[k].cxx = Cxx(script, ScanCxx(k))
  /\ Len(invoked) <= Total
  /\ pc = "done" =>
       /\ Len(invoked) = Total
       /\ \A k \in 1..Total : invoked[k].status = 0
  /\ pc = "run" => NumRows = Len(invoked)
  /\ pc # "start" => Len(invoked) \in {NumRows, NumRows + 1}

C5_Witness ==
  /\ IsCxx
  /\ pc = "done"
  /\ Len(invoked) = NBins * NCxx
  /\ invoked[Len(invoked)].cxx # invoked[1].cxx
  /\ invoked[Len(invoked)].mmin # invoked[1].mmin

(***************************************************************************)
(* C2                                                                      *)
(***************************************************************************)
C2_FailedRun ==
  \A k \in 1..Len(invoked) :
    invoked[k].status # 0 =>
      /\ k = Len(invoked)
      /\ pc = "failed"
      /\ error = "CalledProcessError"
      /\ result = (IF k = 1 THEN NoResult("none") ELSE OutputOf(k - 1))
      /\ NumRows = k - 1
      /\ out.text[1] = HeaderLine(script)
      /\ \A m \in 1..(k - 1) : out.text[m + 1] = ExpectedRow(m)

\* C2: a run whose generator exits non-zero is the last one: main stops with
\* CalledProcessError, that run's log is not parsed and gets no row, the
\* table keeps the header and the rows of the earlier runs, and no step of
\* main (card edit, invocation, parse, row) follows.
C2_NonZeroExitIsFatal ==
  /\ []C2_FailedRun
  /\ [][pc # "failed"]_vars

\* a generator failure after at least one completed run, on output that
\* holds a well-formed cross-section line
C2_Witness ==
  /\ pc = "failed"
  /\ error = "CalledProcessError"
  /\ Len(invoked) >= 2
  /\ NumRows = Len(invoked) - 1
  /\ OutputOf(Len(invoked)).status = "ok"

(***************************************************************************)
(* C6                                                                      *)
(***************************************************************************)
\* the working cards hold the values of the scan point at (i, j)
C6_CardsHoldPoint ==
  /\ runCard.exists
  /\ RunCardNumbers(runCard.text, PARAM_MIN) = {Fmt6g(MMin(i))}
  /\ RunCardNumbers(runCard.text, PARAM_MAX) = {Fmt6g(MMax(i))}
  /\ IsCxx =>
       /\ paramCard.exists
       /\ ParamCardNumbers(paramCard.text, CXX_LABEL) = {Fmt6e(Cxx(script, j))}

\* C6: in every iteration the cards are updated before the generator runs,
\* the log is parsed after it and the row written last; at each invocation
\* the working cards hold the values of the invoked scan point (stated on
\* the state in which run_madgraph is called and on the state it leaves),
\* and the row of the run carries the same values.
C6_StepsInOrderOnOwnValues ==
  /\ (pc \in {"run", "parse"}
        \/ (pc = "failed" /\ error = "CalledProcessError")) =>
       C6_CardsHoldPoint
  /\ (pc = "parse" \/ (pc = "failed" /\ error = "CalledProcessError")) =>
       /\ invoked # <<>>
       /\ invoked[Len(invoked)].mmin = MMin(i)
       /\ invoked[Len(invoked)].mmax = MMax(i)
       /\ invoked[Len(invoked)].cxx = Cxx(script, j)
  /\ \A k \in 1..Len(invoked) :
       /\ invoked[k].mmin = MMin(ScanBin(k))
       /\ invoked[k].mmax = MMax(ScanBin(k))
       /\ invoked[k].cxx = Cxx(script, ScanCxx(k))
  /\ pc # "start" =>
       \A k \in 1..NumRows :
         /\ k <= Len(invoked)
         /\ out.text[k + 1].mmin = invoked[k].mmin
         /\ out.text[k + 1].mmax = invoked[k].mmax
         /\ IsCxx => out.text[k + 1].cxx = invoked[k].cxx
  /\ pc \in {"card", "param", "run"} =>
       /\ Len(invoked) = PointIndex - 1
       /\ NumRows = PointIndex - 1
  /\ pc \in {"parse", "append"} =>
       /\ Len(invoked) = PointIndex
       /\ NumRows = PointIndex - 1
  /\ pc = "append" => result = OutputOf(PointIndex)

\* the cxx scan has invoked the generator for its last point, which differs
\* from the first one in both cards, in a directory that held older cards,
\* and has written rows
C6_Witness ==
  /\ IsCxx
  /\ leftover
  /\ pc = "parse"
  /\ Len(invoked) = NBins * NCxx
  /\ NumRows >= 1
  /\ invoked[Len(invoked)].mmin # invoked[1].mmin
  /\ invoked[Len(invoked)].cxx # invoked[1].cxx

(***************************************************************************)
(* C7                                                                      *)
(***************************************************************************)
\* C7: a run-card template without an mmll line or without an mmllmax line
\* makes update_run_card raise RuntimeError with the working run card
\* untouched, a param-card template without the labelled line does the same
\* for update_param_card and the working param card; no generator
\* invocation and no row follow.
C7_FailedUpdateWritesNothing ==
  /\ [][(pc = "card" /\ runTemplate.exists /\
          (RunCardNumbers(runTemplate.text, PARAM_MIN) = {}
             \/ RunCardNumbers(runTemplate.text, PARAM_MAX) = {}))
        => (/\ pc' = "failed"
            /\ error' = "RuntimeError"
            /\ runCard' = runCard
            /\ paramCard' = paramCard
            /\ invoked' = invoked
            /\ out' = out)]_vars
  /\ [][(pc = "param" /\ paramTemplate.exists
           /\ ParamCardNumbers(paramTemplate.text, CXX_LABEL) = {})
        => (/\ pc' = "failed"
            /\ error' = "RuntimeError"
            /\ paramCard' = paramCard
            /\ invoked' = invoked
            /\ out' = out)]_vars
  /\ [][pc # "failed"]_vars

\* update_run_card failed on a template without a line and a working card
\* of an earlier scan is still in place
C7_Witness ==
  /\ pc = "failed"
  /\ error = "RuntimeError"
  /\ invoked = <<>>
  /\ NumRows = 0
  /\ runTemplate.exists
  /\ RunCardNumbers(runTemplate.text, PARAM_MAX) = {}
  /\ runCard = File(OldRunCard)

(***************************************************************************)
(* C9                                                                      *)
(***************************************************************************)
\* C9: the figures of every row, and the tuple main holds before it writes
\* a row, are parsed from what the generator printed in that row's own
\* invocation, whatever the log file held before; a run whose output has no
\* parsable cross-section line ends the scan without a row.
C9_RowsFromOwnRun ==
  /\ pc # "start" =>
       \A k \in 1..NumRows :
         /\ k <= Len(invoked)
         /\ LET o == OutputOf(k)
            IN  /\ o.status = "ok"
                /\ out.text[k + 1].xsec = o.xsec
                /\ out.text[k + 1].err = o.err
                /\ out.text[k + 1].unit = o.unit
  /\ pc = "append" =>
       /\ invoked # <<>>
       /\ result = OutputOf(Len(invoked))
       /\ result.status = "ok"
  /\ \A k \in 1..Len(invoked) :
       OutputOf(k).status # "ok" =>
         /\ k = Len(invoked)
         /\ pc \in {"parse", "failed"}
         /\ NumRows < k

\* a row written for a run whose log file held a well-formed line of an
\* earlier scan with other figures
C9_Witness ==
  /\ leftover
  /\ pc # "start"
  /\ NumRows >= 1
  /\ ParseCrossSectionOf(File(StaleLog)).status = "ok"
  /\ ParseCrossSectionOf(File(StaleLog)).xsec # out.text[2].xsec

(***************************************************************************)
(* C10                                                                     *)
(***************************************************************************)
C10_CardsFromTemplate ==
  /\ pc \in {"param", "run", "parse", "append"} =>
       runCard = File(SubstRunCard(runTemplate.text, MMin(i), MMax(i)).text)
  /\ (IsCxx /\ pc \in {"run", "parse", "append"}) =>
       paramCard = File(SubstParamCard(paramTemplate.text, Cxx(script, j)).text)

\* C10: no step writes a template card, and after the updates of an
\* iteration the working cards are the substitution applied to the
\* templates with that iteration's values, whatever the working cards
\* held before.
C10_TemplatesUntouched ==
  /\ []C10_CardsFromTemplate
  /\ [][runTemplate' = runTemplate /\ paramTemplate' = paramTemplate]_vars

\* the cards of a later scan point, in a directory that held older cards
C10_Witness ==
  /\ leftover
  /\ IsCxx
  /\ pc = "run"
  /\ PointIndex = NBins * NCxx
  /\ runCard # File(OldRunCard)

(***************************************************************************)
(* C3                                                                      *)
(***************************************************************************)
\* the lines of a text, without their newlines
RECURSIVE SplitLines(_)
SplitLines(text) ==
  LET e == SpanEnd(text, 1, {text[k] : k \in 1..Len(text)} \ {"\n"})
  IN  IF e > Len(text) THEN <<text>>
      ELSE <<Slice(text, 1, e)>> \o SplitLines(Slice(text, e + 1, Len(text) + 1))

\* a line of the run card with only its leading numeric field (the number
\* and the blanks before it) replaced, when the line defines `name`
C3_RunLine(line, name, repl) ==
  LET m == RunMatch(line, 1, name)
  IN  IF m.ok THEN <<" ">> \o repl \o Slice(line, m.gs, Len(line) + 1)
      ELSE line

\* a line of the param card with only its <number> replaced
C3_ParamLine(line, label, repl) ==
  LET m == ParamMatch(line, 1, label)
  IN  IF m.ok THEN Slice(line, 1, m.ns) \o repl \o Slice(line, m.gs, Len(line) + 1)
      ELSE line

\* C3: the working card written by update_run_card has the lines of the
\* template, in the same number, each identical to the template's line
\* except for the leading numeric field of the lines that define mmll and
\* mmllmax; likewise the param card and its <number>.
C3_OnlyTheNumberChanges ==
  /\ pc \in {"param", "run", "parse", "append"} =>
       LET t == SplitLines(runTemplate.text)
           c == SplitLines(runCard.text)
       IN  /\ Len(c) = Len(t)
           /\ \A k \in 1..Len(t) :
                c[k] = C3_RunLine(C3_RunLine(t[k], PARAM_MIN, Fmt6g(MMin(i))),
                                  PARAM_MAX, Fmt6g(MMax(i)))
  /\ (IsCxx /\ pc \in {"run", "parse", "append"}) =>
       LET t == SplitLines(paramTemplate.text)
           c == SplitLines(paramCard.text)
       IN  /\ Len(c) = Len(t)
           /\ \A k \in 1..Len(t) :
                c[k] = C3_ParamLine(t[k], CXX_LABEL, Fmt6e(Cxx(script, j)))

(***************************************************************************)
(* parse_cross_section on its own: SpecParse                               *)
(***************************************************************************)
ParseLines ==
  {LineInfo, LineGoodA, LineGoodB, LineShort, LineNonNum, LinePrefixed,
   LineSpaced}

ParseLogs == UNION {[1..n -> ParseLines] : n \in 0..MaxLogLines}

ParsePath == <<"mll_", "1", "5", "_", "2", "0">>

\* main stands before the call of parse_cross_section(log_path); the log
\* file is missing or holds any of ParseLogs
InitParse ==
  /\ script = "mll"
  /\ leftover = FALSE
  /\ runTemplate \in {File(LineComment \o LineMin \o NL \o LineMax \o NL)}
  /\ paramTemplate = NoFile
  /\ runCard = File(SubstRunCard(runTemplate.text, MMin(1), MMax(1)).text)
  /\ paramCard = NoFile
  /\ out = File(<<HeaderLine(script)>>)
  /\ i = 1
  /\ j = 1
  /\ log_path = ParsePath
  /\ result = NoResult("none")
  /\ error = "none"
  /\ invoked = <<>>
  /\ pc = "parse"
  /\ logs \in {NoFiles} \cup
              {[n \in {ParsePath} |-> File(l)] : l \in ParseLogs}

NextParse == ParseCrossSection

SpecParse == InitParse /\ [][NextParse]_vars

(***************************************************************************)
(* C4                                                                      *)
(***************************************************************************)
C4_Outcome(status) == IF status = "ok" THEN pc = "append"
                      ELSE pc = "failed" /\ error = status

\* C4: the call ends by the first line that contains "Cross-section :"
\* alone: its words 2, 4 and 5 are returned when it has six words with
\* numbers at 2 and 4, RuntimeError is raised otherwise, whatever follows
\* that line; no such line raises RuntimeError, no file FileNotFoundError.
C4_FirstMarkerLineDecides ==
  pc \in {"append", "failed"} =>
    LET f  == ReadFile(logs, log_path)
        ms == {k \in 1..Len(f.text) : HasMarker(f.text[k])}
    IN  /\ ~f.exists => C4_Outcome("FileNotFoundError")
        /\ (f.exists /\ ms = {}) => C4_Outcome("RuntimeError")
        /\ (f.exists /\ ms # {}) =>
             LET k     == CHOOSE m \in ms : \A n \in ms : m <= n
                 parts == Split(f.text[k])
                 good  == /\ Len(parts) >= 6
                          /\ IsFloat(parts[3])
                          /\ IsFloat(parts[5])
             IN  /\ good =>
                      /\ C4_Outcome("ok")
                      /\ result = [status |-> "ok",
                                   xsec   |-> FloatValue(parts[3][1]),
                                   err    |-> FloatValue(parts[5][1]),
                                   unit   |-> parts[6]]
                 /\ ~good => C4_Outcome("RuntimeError")
                 /\ C4_Outcome(ParseCrossSectionOf(File(<<f.text[k]>>)).status)
        /\ pc = "failed" => result = NoResult("none")

\* the first marker line is too short and a well-formed one follows it
C4_Witness ==
  /\ pc = "failed"
  /\ error = "RuntimeError"
  /\ ReadFile(logs, log_path) = File(<<LineShort, LineGoodA>>)

(***************************************************************************)
(* The scans over the whole of MASS_BINS and CXX_VALUES: SpecNames         *)
(***************************************************************************)
\* what the generator prints in SpecNames: a log with a cross-section line,
\* or one without
NameOutputs == {<<LineGoodB, LineInfo>>, <<LineInfo>>}

\* main starts in a directory without working files, with templates that
\* hold the lines the updates look for
InitNames ==
  /\ script \in {"mll", "cxx"}
  /\ leftover = FALSE
  /\ runTemplate \in {File(LineComment \o LineMin \o NL \o LineMax \o NL)}
  /\ paramTemplate \in
       IF script = "cxx"
       THEN {File(LineComment \o NL \o LineCxx \o NL \o LineCyy \o NL)}
       ELSE {NoFile}
  /\ runCard = NoFile
  /\ paramCard = NoFile
  /\ logs = NoFiles
  /\ out = NoFile
  /\ InitLocals
  /\ pc = "start"

NextNames ==
  \/ Start
  \/ UpdateRunCard
  \/ UpdateParamCard
  \/ RunMadgraphWith(NameOutputs)
  \/ ParseCrossSection
  \/ WriteRowOn(Len(MASS_BINS), Len(CXX_VALUES))

SpecNames == InitNames /\ [][NextNames]_vars

(***************************************************************************)
(* C8                                                                      *)
(***************************************************************************)
\* C8: the runs invoked so far have pairwise different run names, so each
\* has a log file of its own that still holds what its own run printed, and
\* the name of the point about to run is the name of no earlier run.
C8_RunNamesUnique ==
  /\ Cardinality(DOMAIN logs) = Len(invoked)
  /\ \A k \in 1..Len(invoked) :
       /\ invoked[k].name \in DOMAIN logs
       /\ logs[invoked[k].name] = File(invoked[k].output)
  /\ pc = "run" => CurrentName \notin DOMAIN logs

\* the cxx scan has run every cxx value of the first bin, -100 and 100
\* among them, and has gone on to the second bin
C8_Witness ==
  /\ IsCxx
  /\ i = 2
  /\ pc = "run"
  /\ Len(invoked) = Len(CXX_VALUES) + j - 1
  /\ RunName("cxx", MMin(1), MMax(1), -100) \in DOMAIN logs
  /\ RunName("cxx", MMin(1), MMax(1), 100) \in DOMAIN logs
====
